---- MODULE Spec2Model ----
(***************************************************************************)
(* Model of base_images_sbom_script.py: the stage resolver, the component  *)
(* builder, the CycloneDX and SPDX emitters and main.                       *)
(*                                                                         *)
(* Text is modelled as a sequence of tokens: a token is either a delimiter  *)
(* character ("/", ":", "@") or a run of characters holding no delimiter.   *)
(* Splitting, prefix tests and concatenation work on these sequences the    *)
(* way the Python string methods work on characters.                        *)
(***************************************************************************)
EXTENDS Integers, Sequences, FiniteSets, TLC

VARIABLES
    pc,                         \* position of the run
    stages,                     \* parsed_dockerfile["Stages"], each stage's "From"
    stage_pos,                  \* number of stages the resolver's for loop has done
    stage_index,                \* the resolver's while-loop variable (NoIndex = None)
    base_images,                \* list of resolved image references
    base_images_digests,        \* dict: image reference -> digest-pinned reference
    index,                      \* enumerate() position of the component builder
    components,                 \* list of CDXComponent
    already_used_base_images,   \* set of purls
    sbom,                       \* the SBOM document in memory
    sbom_file,                  \* the SBOM document stored at args.sbom
    annotation_date,            \* value read from _datetime_utc_now (NoDate = not read)
    arg_image,                  \* argument of a call of parse_image_reference_to_parts
    ret_parsed_image            \* what that call returned (NoParse = nothing yet)

vars == <<pc, stages, stage_pos, stage_index, base_images, base_images_digests,
          index, components, already_used_base_images, sbom, sbom_file,
          annotation_date, arg_image, ret_parsed_image>>

parser_vars == <<arg_image, ret_parsed_image>>
resolver_vars == <<stages, stage_pos, stage_index>>
builder_vars == <<index, components, already_used_base_images>>
sbom_vars == <<sbom, sbom_file, annotation_date>>

(***************************************************************************)
(* Bounds of the model.                                                     *)
(***************************************************************************)
MaxStages == 3

(***************************************************************************)
(* Text helpers.                                                            *)
(***************************************************************************)
RECURSIVE SplitFrom(_, _, _, _)
\* str.split(sep) scanning from position i with the current piece cur
SplitFrom(s, sep, i, cur) ==
    IF i > Len(s) THEN <<cur>>
    ELSE IF s[i] = sep THEN <<cur>> \o SplitFrom(s, sep, i + 1, <<>>)
    ELSE SplitFrom(s, sep, i + 1, Append(cur, s[i]))

Split(s, sep) == SplitFrom(s, sep, 1, <<>>)

\* str.rsplit(sep, 1): split once at the last occurrence of sep
RSplit1(s, sep) ==
    LET at == {i \in 1..Len(s) : s[i] = sep}
    IN  IF at = {} THEN <<s>>
        ELSE LET m == CHOOSE i \in at : \A j \in at : j <= i
             IN  <<SubSeq(s, 1, m - 1), SubSeq(s, m + 1, Len(s))>>

StartsWith(s, prefix) ==
    Len(s) >= Len(prefix) /\ SubSeq(s, 1, Len(prefix)) = prefix

Digit == <<"0", "1", "2", "3", "4", "5", "6", "7", "8", "9">>

RECURSIVE IntToStr(_)
\* str(n) for n >= 0: the decimal digits of n
IntToStr(n) ==
    IF n < 10 THEN Digit[n + 1] ELSE IntToStr(n \div 10) \o Digit[(n % 10) + 1]

(***************************************************************************)
(* Image references and digest-pinned references used as inputs.            *)
(***************************************************************************)
Scratch == <<"scratch">>
OciArchive == <<"oci-archive", ":", "out.ociarchive">>
ImgA == <<"reg", "/", "a", ":", "t1">>
ImgA2 == <<"reg", "/", "a", ":", "t2">>
ImgB == <<"reg", "/", "b", ":", "t1">>

Images == {Scratch, OciArchive, ImgA, ImgA2, ImgB}

DigA1 == <<"reg", "/", "a", ":", "t1", "@", "sha256", ":", "d1">>
\* another tag of the same repository at the same digest
DigA2 == <<"reg", "/", "a", ":", "t2", "@", "sha256", ":", "d1">>
DigB == <<"reg", "/", "b", ":", "t1", "@", "sha256", ":", "d2">>
\* a digest-pinned reference that carries no tag
DigNoTag == <<"reg", "/", "b", "@", "sha256", ":", "d2">>
EmptyStr == <<>>

\* the values a digest mapping may give to each key
DigestChoices(image) ==
    IF image = Scratch THEN {DigA1}
    ELSE IF image = OciArchive THEN {DigB}
    ELSE IF image = ImgA THEN {DigA1, EmptyStr}
    ELSE IF image = ImgA2 THEN {DigA2, DigA1}
    ELSE {DigB, DigNoTag}

DigestRefs == {DigA1, DigA2, DigB, DigNoTag, EmptyStr}

DigestMaps ==
    UNION {{d \in [D -> DigestRefs] : \A k \in D : d[k] \in DigestChoices(k)} :
           D \in SUBSET Images}

RECURSIVE SeqsUpTo(_, _)
\* all sequences over S of length at most n
SeqsUpTo(S, n) ==
    IF n = 0 THEN {<<>>}
    ELSE LET shorter == SeqsUpTo(S, n - 1)
         IN  shorter \cup {Append(s, x) : s \in {t \in shorter : Len(t) = n - 1}, x \in S}

(***************************************************************************)
(* parse_image_reference_to_parts                                           *)
(***************************************************************************)
\* the two tuple unpackings succeed: exactly one "@", and rsplit gives two parts
ParseOk(image) ==
    /\ Len(Split(image, "@")) = 2
    /\ Len(RSplit1(Split(image, "@")[1], ":")) = 2

\* mutant: the tag is cut at the first colon instead of the last
parse_image_reference_first_colon(image) ==
    LET repository_with_tag == Split(image, "@")[1]
        digest == Split(image, "@")[2]
        repository == Split(repository_with_tag, ":")[1]
        parts == Split(repository, "/")
        name == parts[Len(parts)]
    IN  [repository |-> repository, digest |-> digest, name |-> name]

parse_image_reference_to_parts(image) ==
    LET repository_with_tag == Split(image, "@")[1]
        digest == Split(image, "@")[2]
        repository == RSplit1(repository_with_tag, ":")[1]
        parts == Split(repository, "/")
        name == parts[Len(parts)]
    IN  [repository |-> repository, digest |-> digest, name |-> name]

\* no ParsedImage has been returned
NoParse == <<>>

\* PackageURL(type="oci", name, version, qualifiers={repository_url}).to_string()
PurlToString(parsed_image) ==
    <<"pkg:oci/">> \o parsed_image.name \o <<"@">> \o parsed_image.digest
        \o <<"?repository_url=">> \o parsed_image.repository

(***************************************************************************)
(* get_base_images_sbom_components, one action per way through the loop     *)
(* body.                                                                    *)
(***************************************************************************)
BuilderName == "konflux:container:is_builder_image:for_stage"
BaseName == "konflux:container:is_base_image"

\* mutant: the oci-archive prefix test is forgotten
IsPseudoScratchOnly(image) == image = Scratch

\* mutant: the scratch test is forgotten
IsPseudoOciOnly(image) == StartsWith(image, <<"oci-archive">>)

\* image.startswith("oci-archive") or image == "scratch"
IsPseudo(image) == StartsWith(image, <<"oci-archive">>) \/ image = Scratch

\* base_images_digests.get(image) is truthy
HasDigest(digests, image) == image \in DOMAIN digests /\ digests[image] # EmptyStr

\* mutant: the last stage that is not a pseudo-stage counts as the last index
IsLastRealIndex(i, images) ==
    /\ i < Len(images)
    /\ \A j \in (i + 2)..Len(images) :
           StartsWith(images[j], <<"oci-archive">>) \/ images[j] = Scratch

\* mutant: off by one, compares with len(base_images)
IsLastIndexOffByOne(i, images) == i = Len(images)

\* mutant: the last stage that has a digest counts as the last index
IsLastMappedIndex(i, images) ==
    /\ i < Len(images)
    /\ \A j \in (i + 2)..Len(images) :
           images[j] \notin DOMAIN base_images_digests
               \/ base_images_digests[images[j]] = EmptyStr

\* index == len(base_images) - 1
IsLastIndex(i, images) == i = Len(images) - 1

\* mutant: the stage number counts only the stages that were not pseudo-stages
StagePropertyCompacted(i, images) ==
    IF i = Len(images) - 1
    THEN [name |-> BaseName, value |-> "true"]
    ELSE [name |-> BuilderName,
          value |-> IntToStr(Cardinality({j \in 1..i :
                        ~(StartsWith(images[j], <<"oci-archive">>) \/ images[j] = Scratch)}))]

\* property_name / property_value chosen for the stage at 0-based index i
StageProperty(i, images) ==
    IF IsLastIndex(i, images)
    THEN [name |-> BaseName, value |-> "true"]
    ELSE [name |-> BuilderName, value |-> IntToStr(i)]

CurrentImage == base_images[index + 1]
CurrentDigest == base_images_digests[CurrentImage]
CurrentPurl == PurlToString(parse_image_reference_to_parts(CurrentDigest))

InLoop == pc = "components" /\ index < Len(base_images)

\* mutant: the set of used purls is never consulted
AlreadyUsedNever(purl_str, used) == FALSE

\* the dedup test: purl_str in already_used_base_images
AlreadyUsed(purl_str, used) == purl_str \in used

\* mutant: the property is put in front of the existing ones
PrependToMatching(comps, purl_str, property) ==
    [c \in DOMAIN comps |->
        IF comps[c].purl = purl_str
        THEN [comps[c] EXCEPT !.properties = <<property>> \o @]
        ELSE comps[c]]

\* mutant: the property takes the place of the existing ones
ReplaceInMatching(comps, purl_str, property) ==
    [c \in DOMAIN comps |->
        IF comps[c].purl = purl_str
        THEN [comps[c] EXCEPT !.properties = <<property>>]
        ELSE comps[c]]

\* the for loop over components appending the property where the purl matches
AppendToMatching(comps, purl_str, property) ==
    [c \in DOMAIN comps |->
        IF comps[c].purl = purl_str
        THEN [comps[c] EXCEPT !.properties = Append(@, property)]
        ELSE comps[c]]

NewComponentFor(parsed_image, purl_str, property) ==
    [type |-> "container",
     name |-> parsed_image.repository,
     purl |-> purl_str,
     properties |-> <<property>>]

SkipPseudo ==
    /\ InLoop
    /\ IsPseudo(CurrentImage)
    /\ index' = index + 1
    /\ UNCHANGED <<parser_vars, pc, components, already_used_base_images, base_images,
                   base_images_digests, resolver_vars, sbom_vars>>

SkipNoDigest ==
    /\ InLoop
    /\ ~IsPseudo(CurrentImage)
    /\ ~HasDigest(base_images_digests, CurrentImage)
    /\ index' = index + 1
    /\ UNCHANGED <<parser_vars, pc, components, already_used_base_images, base_images,
                   base_images_digests, resolver_vars, sbom_vars>>

\* parse_image_reference_to_parts raises ValueError on a failed unpacking
ParseRaises ==
    /\ InLoop
    /\ ~IsPseudo(CurrentImage)
    /\ HasDigest(base_images_digests, CurrentImage)
    /\ ~ParseOk(CurrentDigest)
    /\ pc' = "error"
    /\ UNCHANGED <<parser_vars, builder_vars, base_images, base_images_digests, resolver_vars,
                   sbom_vars>>

AddProperty ==
    /\ InLoop
    /\ ~IsPseudo(CurrentImage)
    /\ HasDigest(base_images_digests, CurrentImage)
    /\ ParseOk(CurrentDigest)
    /\ AlreadyUsed(CurrentPurl, already_used_base_images)
    /\ components' = AppendToMatching(components, CurrentPurl,
                                      StageProperty(index, base_images))
    /\ index' = index + 1
    /\ UNCHANGED <<parser_vars, pc, already_used_base_images, base_images, base_images_digests,
                   resolver_vars, sbom_vars>>

\* mutant: the new component is put in front of the list
NewComponentPrepends ==
    /\ InLoop
    /\ ~IsPseudo(CurrentImage)
    /\ HasDigest(base_images_digests, CurrentImage)
    /\ ParseOk(CurrentDigest)
    /\ ~AlreadyUsed(CurrentPurl, already_used_base_images)
    /\ components' = <<NewComponentFor(parse_image_reference_to_parts(CurrentDigest),
                                       CurrentPurl,
                                       StageProperty(index, base_images))>> \o components
    /\ already_used_base_images' = already_used_base_images \cup {CurrentPurl}
    /\ index' = index + 1
    /\ UNCHANGED <<parser_vars, pc, base_images, base_images_digests, resolver_vars, sbom_vars>>

NewComponent ==
    /\ InLoop
    /\ ~IsPseudo(CurrentImage)
    /\ HasDigest(base_images_digests, CurrentImage)
    /\ ParseOk(CurrentDigest)
    /\ ~AlreadyUsed(CurrentPurl, already_used_base_images)
    /\ components' = Append(components,
                            NewComponentFor(parse_image_reference_to_parts(CurrentDigest),
                                            CurrentPurl,
                                            StageProperty(index, base_images)))
    /\ already_used_base_images' = already_used_base_images \cup {CurrentPurl}
    /\ index' = index + 1
    /\ UNCHANGED <<parser_vars, pc, base_images, base_images_digests, resolver_vars, sbom_vars>>

ReturnComponents ==
    /\ pc = "components"
    /\ index = Len(base_images)
    /\ pc' = "returned"
    /\ UNCHANGED <<parser_vars, builder_vars, base_images, base_images_digests, resolver_vars,
                   sbom_vars>>

BuilderStep ==
    \/ SkipPseudo
    \/ SkipNoDigest
    \/ ParseRaises
    \/ AddProperty
    \/ NewComponent
    \/ ReturnComponents

(***************************************************************************)
(* get_base_images_from_dockerfile.  A stage is its "From" dict: a function *)
(* whose domain holds "Image", "Scratch" or "Stage".                        *)
(***************************************************************************)
\* stage_index holds <<i>> for the integer i and <<>> for None, the value that
\* ends the while loop
NoIndex == <<>>

FromImage(image) == [Image |-> image]
FromScratch == [Scratch |-> TRUE]
FromStage(i) == [Stage |-> [Named |-> "builder", Index |-> i]]
\* a "From" dict with none of the three keys
FromOther == [Unknown |-> TRUE]

\* stages[i] of a Python list: negative indices count from the end
InRange(list, i) == -Len(list) <= i /\ i < Len(list)
ListAt(list, i) == IF i >= 0 THEN list[i + 1] ELSE list[Len(list) + i + 1]

InForLoop == pc = "resolve" /\ stage_pos < Len(stages)
CurrentFrom == stages[stage_pos + 1]
\* the while loop runs: stage_index is not None
InWhileLoop == pc = "chain" /\ stage_index # NoIndex
\* refered_stage = stages[stage_index]
ReferedInRange == InRange(stages, stage_index[1])
ReferedFrom == ListAt(stages, stage_index[1])

\* refered_stage.get("From").get("Stage", {}).get("Index", None)
NextStageIndex(from) ==
    IF "Stage" \in DOMAIN from /\ "Index" \in DOMAIN from.Stage
    THEN <<from.Stage.Index>>
    ELSE NoIndex

ResolveImage ==
    /\ InForLoop
    /\ "Image" \in DOMAIN CurrentFrom
    /\ base_images' = Append(base_images, CurrentFrom.Image)
    /\ stage_pos' = stage_pos + 1
    /\ UNCHANGED <<parser_vars, pc, stages, stage_index, base_images_digests, builder_vars, sbom_vars>>

\* mutant: nothing is appended for a scratch stage
ResolveScratchSkips ==
    /\ InForLoop
    /\ "Image" \notin DOMAIN CurrentFrom
    /\ "Scratch" \in DOMAIN CurrentFrom
    /\ stage_pos' = stage_pos + 1
    /\ UNCHANGED <<parser_vars, pc, stages, stage_index, base_images, base_images_digests,
                   builder_vars, sbom_vars>>

ResolveScratch ==
    /\ InForLoop
    /\ "Image" \notin DOMAIN CurrentFrom
    /\ "Scratch" \in DOMAIN CurrentFrom
    /\ base_images' = Append(base_images, Scratch)
    /\ stage_pos' = stage_pos + 1
    /\ UNCHANGED <<parser_vars, pc, stages, stage_index, base_images_digests, builder_vars, sbom_vars>>

\* elif "Stage" in stage["From"]: stage_index = stage["From"]["Stage"]["Index"]
ResolveStage ==
    /\ InForLoop
    /\ "Image" \notin DOMAIN CurrentFrom
    /\ "Scratch" \notin DOMAIN CurrentFrom
    /\ "Stage" \in DOMAIN CurrentFrom
    /\ stage_index' = <<CurrentFrom.Stage.Index>>
    /\ pc' = "chain"
    /\ UNCHANGED <<parser_vars, stages, stage_pos, base_images, base_images_digests, builder_vars,
                   sbom_vars>>

\* none of the three branches is taken: nothing is appended for the stage
ResolveNothing ==
    /\ InForLoop
    /\ "Image" \notin DOMAIN CurrentFrom
    /\ "Scratch" \notin DOMAIN CurrentFrom
    /\ "Stage" \notin DOMAIN CurrentFrom
    /\ stage_pos' = stage_pos + 1
    /\ UNCHANGED <<parser_vars, pc, stages, stage_index, base_images, base_images_digests,
                   builder_vars, sbom_vars>>

\* mutant: every turn of the while loop appends the stage name it passes
ChainFollowEmits ==
    /\ InWhileLoop
    /\ ReferedInRange
    /\ NextStageIndex(ReferedFrom) # NoIndex
    /\ stage_index' = NextStageIndex(ReferedFrom)
    /\ base_images' = Append(base_images, <<ReferedFrom.Stage.Named>>)
    /\ UNCHANGED <<parser_vars, pc, stages, stage_pos, base_images_digests, builder_vars, sbom_vars>>

\* one turn of the while loop that finds another stage reference
ChainFollow ==
    /\ InWhileLoop
    /\ ReferedInRange
    /\ NextStageIndex(ReferedFrom) # NoIndex
    /\ stage_index' = NextStageIndex(ReferedFrom)
    /\ UNCHANGED <<parser_vars, pc, stages, stage_pos, base_images, base_images_digests,
                   builder_vars, sbom_vars>>

\* the turn of the while loop that reaches a stage with an image
\* mutant: the name of the referred stage is emitted instead of its image
ChainEmitNamed ==
    /\ InWhileLoop
    /\ ReferedInRange
    /\ NextStageIndex(ReferedFrom) = NoIndex
    /\ "Image" \in DOMAIN ReferedFrom
    /\ base_images' = Append(base_images, <<CurrentFrom.Stage.Named>>)
    /\ stage_index' = NoIndex
    /\ stage_pos' = stage_pos + 1
    /\ pc' = "resolve"
    /\ UNCHANGED <<parser_vars, stages, base_images_digests, builder_vars, sbom_vars>>

ChainEmit ==
    /\ InWhileLoop
    /\ ReferedInRange
    /\ NextStageIndex(ReferedFrom) = NoIndex
    /\ "Image" \in DOMAIN ReferedFrom
    /\ base_images' = Append(base_images, ReferedFrom.Image)
    /\ stage_index' = NoIndex
    /\ stage_pos' = stage_pos + 1
    /\ pc' = "resolve"
    /\ UNCHANGED <<parser_vars, stages, base_images_digests, builder_vars, sbom_vars>>

\* stages[stage_index] raises IndexError, or refered_stage["From"]["Image"]
\* raises KeyError
ChainRaises ==
    /\ InWhileLoop
    /\ \/ ~ReferedInRange
       \/ /\ ReferedInRange
          /\ NextStageIndex(ReferedFrom) = NoIndex
          /\ "Image" \notin DOMAIN ReferedFrom
    /\ pc' = "error"
    /\ UNCHANGED <<parser_vars, stages, stage_pos, stage_index, base_images, base_images_digests,
                   builder_vars, sbom_vars>>

ReturnBaseImages ==
    /\ pc = "resolve"
    /\ stage_pos = Len(stages)
    /\ pc' = "digests"
    /\ UNCHANGED <<parser_vars, resolver_vars, base_images, base_images_digests, builder_vars,
                   sbom_vars>>

ResolverStep ==
    \/ ResolveImage
    \/ ResolveScratch
    \/ ResolveStage
    \/ ResolveNothing
    \/ ChainFollow
    \/ ChainEmit
    \/ ChainRaises
    \/ ReturnBaseImages

(***************************************************************************)
(* The SBOM emitters.  A document is a function from its keys to values.    *)
(***************************************************************************)
\* dict.setdefault(key, value), as the dict it leaves behind
SetDefault(d, key, value) ==
    IF key \in DOMAIN d THEN d
    ELSE [k \in DOMAIN d \cup {key} |-> IF k = key THEN value ELSE d[k]]

\* values of _datetime_utc_now()
Times == {[second |-> 0, microsecond |-> 0],
          [second |-> 0, microsecond |-> 5],
          [second |-> 1, microsecond |-> 0]}

\* annotation_date.strftime("%Y-%m-%dT%H:%M:%SZ"): whole seconds only
Strftime(t) == "2026-01-01T00:00:0" \o IntToStr(t.second) \o "Z"

\* json.dumps(cdx_property, separators=(",", ":")), keys in insertion order
JsonDumps(property) ==
    "{\"name\":\"" \o property.name \o "\",\"value\":\"" \o property.value \o "\"}"

\* hashlib.sha256(text.encode()).hexdigest(): a fixed function of the text,
\* taken to be free of collisions
Sha256Hex(text) == <<"sha256(">> \o text \o <<")">>

\* mutant: the annotations come out in reverse order of the properties
cdx_to_spdx_reversed(cdx, date) ==
    [SPDXID |-> <<"SPDXRef-image-">> \o cdx.name \o <<"-">> \o Sha256Hex(cdx.purl),
     name |-> cdx.name,
     downloadLocation |-> "NOASSERTION",
     externalRefs |-> <<[referenceCategory |-> "PACKAGE-MANAGER",
                         referenceType |-> "purl",
                         referenceLocator |-> cdx.purl]>>,
     annotations |-> [k \in DOMAIN cdx.properties |->
                         [annotator |-> "Tool: konflux:jsonencoded",
                          comment |-> JsonDumps(cdx.properties[Len(cdx.properties) + 1 - k]),
                          annotationDate |-> Strftime(date),
                          annotationType |-> "OTHER"]]]

cdx_to_spdx(cdx, date) ==
    [SPDXID |-> <<"SPDXRef-image-">> \o cdx.name \o <<"-">> \o Sha256Hex(cdx.purl),
     name |-> cdx.name,
     downloadLocation |-> "NOASSERTION",
     externalRefs |-> <<[referenceCategory |-> "PACKAGE-MANAGER",
                         referenceType |-> "purl",
                         referenceLocator |-> cdx.purl]>>,
     annotations |-> [k \in DOMAIN cdx.properties |->
                         [annotator |-> "Tool: konflux:jsonencoded",
                          comment |-> JsonDumps(cdx.properties[k]),
                          annotationDate |-> Strftime(date),
                          annotationType |-> "OTHER"]]]

\* [cdx_to_spdx(c, annotation_date) for c in base_images_sbom_components]
SpdxPackages(comps, date) == [k \in DOMAIN comps |-> cdx_to_spdx(comps[k], date)]

\* sbom.get("relationships", [])
RelationshipsOf(doc) ==
    IF "relationships" \in DOMAIN doc THEN doc.relationships ELSE <<>>

\* mutant: the found targets are collected without repetition
DocDescribesDistinct(doc) ==
    LET IsDescribes(r) == /\ r.spdxElementId = doc.SPDXID
                          /\ r.relationshipType = "DESCRIBES"
        Seen(k) == \E j \in 1..(k - 1) :
                      /\ IsDescribes(RelationshipsOf(doc)[j])
                      /\ RelationshipsOf(doc)[j].relatedSpdxElement
                             = RelationshipsOf(doc)[k].relatedSpdxElement
        kept == {k \in DOMAIN RelationshipsOf(doc) :
                    IsDescribes(RelationshipsOf(doc)[k]) /\ ~Seen(k)}
        Nth(n) == CHOOSE k \in kept : Cardinality({j \in kept : j <= k}) = n
    IN  [n \in 1..Cardinality(kept) |-> RelationshipsOf(doc)[Nth(n)].relatedSpdxElement]

\* the list doc_describes
DocDescribes(doc) ==
    LET IsDescribes(r) == /\ r.spdxElementId = doc.SPDXID
                          /\ r.relationshipType = "DESCRIBES"
        found == SelectSeq(RelationshipsOf(doc), IsDescribes)
    IN  [k \in DOMAIN found |-> found[k].relatedSpdxElement]

\* find_spdx_root_package returns: sbom["SPDXID"] exists and one root is found
FindRootOk(doc) == "SPDXID" \in DOMAIN doc /\ Len(DocDescribes(doc)) = 1

find_spdx_root_package(doc) == DocDescribes(doc)[1]

\* what the ValueError of find_spdx_root_package reports: the count found and
\* the list of found targets
FindRootError(doc) ==
    [found |-> Len(DocDescribes(doc)), roots |-> DocDescribes(doc)]

\* mutant: the formulation list is assigned, not appended to
update_cyclonedx_sbom_assigns(doc, comps) ==
    [k \in DOMAIN doc \cup {"formulation"} |->
        IF k = "formulation" THEN <<[components |-> comps]>> ELSE doc[k]]

update_cyclonedx_sbom(doc, comps) ==
    [SetDefault(doc, "formulation", <<>>) EXCEPT
        !["formulation"] = Append(@, [components |-> comps])]

\* mutant: source and target of the relationship are exchanged
BuildToolRelationshipsSwapped(pkgs, root) ==
    [k \in DOMAIN pkgs |-> [spdxElementId |-> root,
                            relationshipType |-> "BUILD_TOOL_OF",
                            relatedSpdxElement |-> pkgs[k].SPDXID]]

\* mutant: the new relationships are DESCRIBES relationships of the document
BuildToolRelationshipsDescribes(pkgs, root) ==
    [k \in DOMAIN pkgs |-> [spdxElementId |-> <<"SPDXRef-DOCUMENT">>,
                            relationshipType |-> "DESCRIBES",
                            relatedSpdxElement |-> pkgs[k].SPDXID]]

\* the relationships list built for the packages
BuildToolRelationships(pkgs, root) ==
    [k \in DOMAIN pkgs |-> [spdxElementId |-> pkgs[k].SPDXID,
                            relationshipType |-> "BUILD_TOOL_OF",
                            relatedSpdxElement |-> root]]

update_spdx_sbom(doc, pkgs) ==
    LET root == find_spdx_root_package(doc)
        relationships == BuildToolRelationships(pkgs, root)
        with_packages == [SetDefault(doc, "packages", <<>>) EXCEPT
                             !["packages"] = @ \o pkgs]
    IN  [SetDefault(with_packages, "relationships", <<>>) EXCEPT
            !["relationships"] = @ \o relationships]

\* mutant: the spdxVersion field is looked at first
detect_sbom_type_spdx_first(doc) ==
    IF "spdxVersion" \in DOMAIN doc /\ doc.spdxVersion # "" THEN "spdx"
    ELSE IF "bomFormat" \in DOMAIN doc /\ doc.bomFormat = "CycloneDX" THEN "cyclonedx"
    ELSE "unknown"

\* detect_sbom_type; "unknown" stands for raising ValueError("Unknown SBOM format")
detect_sbom_type(doc) ==
    IF "bomFormat" \in DOMAIN doc /\ doc.bomFormat = "CycloneDX" THEN "cyclonedx"
    ELSE IF "spdxVersion" \in DOMAIN doc /\ doc.spdxVersion # "" THEN "spdx"
    ELSE "unknown"

(***************************************************************************)
(* Documents and component lists used as inputs.                            *)
(***************************************************************************)
DocId == <<"SPDXRef-DOCUMENT">>
RootId == <<"SPDXRef-root">>
OtherId == <<"SPDXRef-other">>

Describes(target) ==
    [spdxElementId |-> DocId, relationshipType |-> "DESCRIBES",
     relatedSpdxElement |-> target]
Contains == [spdxElementId |-> RootId, relationshipType |-> "CONTAINS",
             relatedSpdxElement |-> OtherId]
\* a DESCRIBES relationship whose source is not the document
OtherDescribes == [spdxElementId |-> RootId, relationshipType |-> "DESCRIBES",
                   relatedSpdxElement |-> OtherId]
RootPackage == [SPDXID |-> RootId, name |-> <<"root">>]

ComponentA ==
    NewComponentFor(parse_image_reference_to_parts(DigA1),
                    PurlToString(parse_image_reference_to_parts(DigA1)),
                    [name |-> BuilderName, value |-> "0"])
ComponentB ==
    NewComponentFor(parse_image_reference_to_parts(DigB),
                    PurlToString(parse_image_reference_to_parts(DigB)),
                    [name |-> BaseName, value |-> "true"])
ComponentAReused ==
    [ComponentA EXCEPT !.properties = Append(@, [name |-> BaseName, value |-> "true"])]

CdxNew == [bomFormat |-> "CycloneDX", metadata |-> "m"]
CdxOld == [bomFormat |-> "CycloneDX", metadata |-> "m",
           formulation |-> <<[components |-> <<ComponentB>>]>>]
SpdxOk == [spdxVersion |-> "SPDX-2.3", SPDXID |-> DocId, name |-> "doc",
           packages |-> <<RootPackage>>,
           relationships |-> <<Describes(RootId), Contains>>]
SpdxNoPackages == [spdxVersion |-> "SPDX-2.3", SPDXID |-> DocId, name |-> "doc",
                   relationships |-> <<OtherDescribes, Describes(RootId)>>]
SpdxNoRoot == [spdxVersion |-> "SPDX-2.3", SPDXID |-> DocId, name |-> "doc",
               packages |-> <<RootPackage>>]
SpdxTwoRoots == [spdxVersion |-> "SPDX-2.3", SPDXID |-> DocId, name |-> "doc",
                 packages |-> <<RootPackage>>,
                 relationships |-> <<Describes(RootId), Describes(OtherId)>>]
SpdxSameRootTwice == [spdxVersion |-> "SPDX-2.3", SPDXID |-> DocId, name |-> "doc",
                      packages |-> <<RootPackage>>,
                      relationships |-> <<Describes(RootId), Describes(RootId)>>]
BothDoc == [bomFormat |-> "CycloneDX", spdxVersion |-> "SPDX-2.3", SPDXID |-> DocId,
            packages |-> <<RootPackage>>, relationships |-> <<Describes(RootId)>>]
UnknownDoc == [metadata |-> "m"]
OtherFormatDoc == [bomFormat |-> "Other", spdxVersion |-> ""]

(***************************************************************************)
(* main                                                                     *)
(***************************************************************************)
\* dict(item.split() for item in lines): every line must hold two words
DictOk(lines) == \A k \in DOMAIN lines : Len(lines[k]) = 2

\* the dict built from the lines; a later line replaces an earlier one
DictOf(lines) ==
    [key \in {lines[k][1] : k \in DOMAIN lines} |->
        LET last == CHOOSE k \in DOMAIN lines :
                        /\ lines[k][1] = key
                        /\ \A j \in DOMAIN lines : lines[j][1] = key => j <= k
        IN  lines[last][2]]

\* contents of the base images digests file, as lines of words
DigestFiles ==
    {<<>>,
     <<<<ImgA, DigA1>>>>,
     <<<<ImgA, DigA1>>, <<ImgB, DigB>>>>,
     <<<<ImgB, DigB>>, <<ImgB, DigNoTag>>>>,
     <<<<ImgA>>>>}

ReadDigests ==
    /\ pc = "digests"
    /\ \E lines \in DigestFiles :
          /\ DictOk(lines)
          /\ base_images_digests' = DictOf(lines)
    /\ pc' = "components"
    /\ UNCHANGED <<parser_vars, resolver_vars, base_images, builder_vars, sbom_vars>>

\* dict() raises ValueError on a line that does not hold two words
ReadDigestsRaises ==
    /\ pc = "digests"
    /\ \E lines \in DigestFiles : ~DictOk(lines)
    /\ pc' = "error"
    /\ UNCHANGED <<parser_vars, resolver_vars, base_images, base_images_digests, builder_vars,
                   sbom_vars>>

\* if not base_images_sbom_components: return
MainReturnEmpty ==
    /\ pc = "returned"
    /\ components = <<>>
    /\ pc' = "done"
    /\ UNCHANGED <<parser_vars, resolver_vars, base_images, base_images_digests, builder_vars,
                   sbom_vars>>

\* mutant: the test for an empty component list is missing
MainLoadAlways ==
    /\ pc = "returned"
    /\ sbom' = sbom_file
    /\ pc' = "loaded"
    /\ UNCHANGED <<parser_vars, resolver_vars, base_images, base_images_digests, builder_vars,
                   sbom_file, annotation_date>>

\* sbom = json.load(f)
MainLoad ==
    /\ pc = "returned"
    /\ components # <<>>
    /\ sbom' = sbom_file
    /\ pc' = "loaded"
    /\ UNCHANGED <<parser_vars, resolver_vars, base_images, base_images_digests, builder_vars,
                   sbom_file, annotation_date>>

\* mutant: a document of unknown format is handled like a CycloneDX one
MainDetectFallsThrough ==
    /\ pc = "loaded"
    /\ detect_sbom_type(sbom) = "unknown"
    /\ sbom' = update_cyclonedx_sbom(sbom, components)
    /\ pc' = "updated"
    /\ UNCHANGED <<parser_vars, resolver_vars, base_images, base_images_digests, builder_vars,
                   sbom_file, annotation_date>>

MainDetectRaises ==
    /\ pc = "loaded"
    /\ detect_sbom_type(sbom) = "unknown"
    /\ pc' = "error"
    /\ UNCHANGED <<parser_vars, resolver_vars, base_images, base_images_digests, builder_vars,
                   sbom_vars>>

MainUpdateCyclonedx ==
    /\ pc = "loaded"
    /\ detect_sbom_type(sbom) = "cyclonedx"
    /\ sbom' = update_cyclonedx_sbom(sbom, components)
    /\ pc' = "updated"
    /\ UNCHANGED <<parser_vars, resolver_vars, base_images, base_images_digests, builder_vars,
                   sbom_file, annotation_date>>

\* mutant: the time is read again for every package after the first
MainUpdateSpdxReadsPerPackage ==
    /\ pc = "loaded"
    /\ detect_sbom_type(sbom) = "spdx"
    /\ \E now \in Times, later \in Times :
          /\ annotation_date' = <<later>>
          /\ FindRootOk(sbom)
          /\ sbom' = update_spdx_sbom(sbom,
                        [k \in DOMAIN components |->
                            cdx_to_spdx(components[k], IF k = 1 THEN now ELSE later)])
    /\ pc' = "updated"
    /\ UNCHANGED <<parser_vars, resolver_vars, base_images, base_images_digests, builder_vars,
                   sbom_file>>

MainUpdateSpdx ==
    /\ pc = "loaded"
    /\ detect_sbom_type(sbom) = "spdx"
    /\ \E now \in Times :
          /\ annotation_date' = <<now>>
          /\ FindRootOk(sbom)
          /\ sbom' = update_spdx_sbom(sbom, SpdxPackages(components, now))
    /\ pc' = "updated"
    /\ UNCHANGED <<parser_vars, resolver_vars, base_images, base_images_digests, builder_vars,
                   sbom_file>>

\* mutant: the packages are added before the root package is looked for
MainUpdateSpdxRaisesPartial ==
    /\ pc = "loaded"
    /\ detect_sbom_type(sbom) = "spdx"
    /\ ~FindRootOk(sbom)
    /\ \E now \in Times :
          /\ annotation_date' = <<now>>
          /\ sbom' = [SetDefault(sbom, "packages", <<>>) EXCEPT
                         !["packages"] = @ \o SpdxPackages(components, now)]
    /\ pc' = "error"
    /\ UNCHANGED <<parser_vars, resolver_vars, base_images, base_images_digests, builder_vars,
                   sbom_file>>

\* find_spdx_root_package raises inside update_spdx_sbom
MainUpdateSpdxRaises ==
    /\ pc = "loaded"
    /\ detect_sbom_type(sbom) = "spdx"
    /\ \E now \in Times : annotation_date' = <<now>>
    /\ ~FindRootOk(sbom)
    /\ pc' = "error"
    /\ UNCHANGED <<parser_vars, resolver_vars, base_images, base_images_digests, builder_vars,
                   sbom, sbom_file>>

\* json.dump(sbom, f, indent=4)
MainWrite ==
    /\ pc = "updated"
    /\ sbom_file' = sbom
    /\ pc' = "done"
    /\ UNCHANGED <<parser_vars, resolver_vars, base_images, base_images_digests, builder_vars,
                   sbom, annotation_date>>

MainStep ==
    \/ ReadDigests
    \/ ReadDigestsRaises
    \/ MainReturnEmpty
    \/ MainLoad
    \/ MainDetectRaises
    \/ MainUpdateCyclonedx
    \/ MainUpdateSpdx
    \/ MainUpdateSpdxRaises
    \/ MainWrite

\* no document loaded yet, no date read yet
NoSbom == [loaded |-> FALSE]
NoDate == <<>>

(***************************************************************************)
(* Spec: one call of get_base_images_sbom_components on any list of image   *)
(* references and any digest mapping.                                       *)
(***************************************************************************)
Init ==
    /\ pc = "components"
    /\ stages = <<>>
    /\ stage_pos = 0
    /\ stage_index = NoIndex
    /\ base_images \in SeqsUpTo(Images, MaxStages)
    /\ base_images_digests \in DigestMaps
    /\ index = 0
    /\ components = <<>>
    /\ already_used_base_images = {}
    /\ sbom = NoSbom
    /\ sbom_file = NoSbom
    /\ annotation_date = NoDate
    /\ arg_image = EmptyStr
    /\ ret_parsed_image = NoParse

Next == BuilderStep

Spec == Init /\ [][Next]_vars

(***************************************************************************)
(* SpecMain: one run of main on any parsed Dockerfile, digests file and     *)
(* SBOM file.                                                               *)
(***************************************************************************)
MaxMainStages == 2

\* the "From" dicts of the stages of a parsed Dockerfile with at most n stages
StageFroms(n) ==
    {FromImage(ImgA), FromImage(ImgB), FromImage(OciArchive), FromScratch, FromOther}
        \cup {FromStage(i) : i \in -1..n}

MainSboms == {CdxNew, CdxOld, SpdxOk, SpdxTwoRoots, BothDoc, UnknownDoc, OtherFormatDoc}

InitMain ==
    /\ pc = "resolve"
    /\ stages \in SeqsUpTo(StageFroms(MaxMainStages), MaxMainStages)
    /\ stage_pos = 0
    /\ stage_index = NoIndex
    /\ base_images = <<>>
    /\ base_images_digests = <<>>
    /\ index = 0
    /\ components = <<>>
    /\ already_used_base_images = {}
    /\ sbom = NoSbom
    /\ sbom_file \in MainSboms
    /\ annotation_date = NoDate
    /\ arg_image = EmptyStr
    /\ ret_parsed_image = NoParse

NextMain ==
    \/ ResolverStep
    \/ BuilderStep
    \/ MainStep

SpecMain == InitMain /\ [][NextMain]_vars

(***************************************************************************)
(* SpecEmit: calls of the two emitters, one after another, on a document.   *)
(***************************************************************************)
MaxFormulation == 2
MaxPackages == 3

EmitSboms == {CdxNew, CdxOld, SpdxOk, SpdxNoPackages, SpdxNoRoot, SpdxTwoRoots,
              SpdxSameRootTwice, BothDoc, UnknownDoc, OtherFormatDoc}

ComponentLists == {<<>>, <<ComponentB>>, <<ComponentAReused>>, <<ComponentA, ComponentB>>}

FormulationOf(doc) == IF "formulation" \in DOMAIN doc THEN doc.formulation ELSE <<>>
PackagesOf(doc) == IF "packages" \in DOMAIN doc THEN doc.packages ELSE <<>>

\* a call update_cyclonedx_sbom(sbom, comps)
EmitCyclonedx ==
    /\ pc = "emit"
    /\ Len(FormulationOf(sbom)) < MaxFormulation
    /\ \E comps \in ComponentLists :
          /\ components' = comps
          /\ sbom' = update_cyclonedx_sbom(sbom, comps)
    /\ UNCHANGED <<parser_vars, pc, resolver_vars, base_images, base_images_digests, index,
                   already_used_base_images, sbom_file, annotation_date>>

\* a call update_spdx_sbom(sbom, [cdx_to_spdx(c, now) for c in comps])
EmitSpdx ==
    /\ pc = "emit"
    /\ FindRootOk(sbom)
    /\ \E comps \in ComponentLists, now \in Times :
          /\ Len(PackagesOf(sbom)) + Len(comps) <= MaxPackages
          /\ components' = comps
          /\ annotation_date' = <<now>>
          /\ sbom' = update_spdx_sbom(sbom, SpdxPackages(comps, now))
    /\ UNCHANGED <<parser_vars, pc, resolver_vars, base_images, base_images_digests, index,
                   already_used_base_images, sbom_file>>

\* a call of update_spdx_sbom in which find_spdx_root_package raises
EmitSpdxRaises ==
    /\ pc = "emit"
    /\ ~FindRootOk(sbom)
    /\ pc' = "error"
    /\ UNCHANGED <<parser_vars, resolver_vars, base_images, base_images_digests, builder_vars,
                   sbom_vars>>

InitEmit ==
    /\ pc = "emit"
    /\ stages = <<>>
    /\ stage_pos = 0
    /\ stage_index = NoIndex
    /\ base_images = <<>>
    /\ base_images_digests = <<>>
    /\ index = 0
    /\ components = <<>>
    /\ already_used_base_images = {}
    /\ sbom \in EmitSboms
    /\ sbom_file = sbom
    /\ annotation_date = NoDate
    /\ arg_image = EmptyStr
    /\ ret_parsed_image = NoParse

NextEmit ==
    \/ EmitCyclonedx
    \/ EmitSpdx
    \/ EmitSpdxRaises

SpecEmit == InitEmit /\ [][NextEmit]_vars

(***************************************************************************)
(* SpecParse: one call of parse_image_reference_to_parts on a reference     *)
(* put together from a registry host, a path, a tag or none, and a digest,  *)
(* or on a text with no "@" or with two.                                    *)
(***************************************************************************)
Hosts == {<<"reg">>, <<"reg", ":", "5000">>}
Paths == {<<>>, <<"/", "a">>, <<"/", "ns", "/", "a">>}
NoTag == <<>>
Tags == {NoTag, <<":", "t1">>, <<":", "<none>">>}
Digests == {<<"sha256", ":", "d1">>, <<"sha256", ":", "d2">>, <<"sha512", ":", "d3">>}

\* the text host path [: tag] @ digest
MkRef(host, path, tag, digest) == host \o path \o tag \o <<"@">> \o digest

ParseRefs ==
    {MkRef(h, p, t, d) : h \in Hosts, p \in Paths, t \in Tags, d \in Digests}
        \cup {ImgA, DigA1 \o <<"@">> \o <<"sha256", ":", "d1">>}

\* a call parse_image_reference_to_parts(image) that returns
ParseCall ==
    /\ pc = "parse"
    /\ ParseOk(arg_image)
    /\ ret_parsed_image' = <<parse_image_reference_to_parts(arg_image)>>
    /\ pc' = "parsed"
    /\ UNCHANGED <<arg_image, resolver_vars, base_images, base_images_digests,
                   builder_vars, sbom_vars>>

\* a call in which one of the two tuple unpackings raises ValueError
ParseCallRaises ==
    /\ pc = "parse"
    /\ ~ParseOk(arg_image)
    /\ pc' = "error"
    /\ UNCHANGED <<parser_vars, resolver_vars, base_images, base_images_digests,
                   builder_vars, sbom_vars>>

InitParse ==
    /\ pc = "parse"
    /\ arg_image \in ParseRefs
    /\ ret_parsed_image = NoParse
    /\ stages = <<>>
    /\ stage_pos = 0
    /\ stage_index = NoIndex
    /\ base_images = <<>>
    /\ base_images_digests = <<>>
    /\ index = 0
    /\ components = <<>>
    /\ already_used_base_images = {}
    /\ sbom = NoSbom
    /\ sbom_file = NoSbom
    /\ annotation_date = NoDate

NextParse == ParseCall \/ ParseCallRaises

SpecParse == InitParse /\ [][NextParse]_vars

(***************************************************************************)
(* SpecResolve: one call of get_base_images_from_dockerfile on any stage    *)
(* list.  SpecResolveFair adds that the call, a sequential loop, takes its   *)
(* next step as long as it has one.                                         *)
(***************************************************************************)
InitResolve ==
    /\ pc = "resolve"
    /\ stages \in SeqsUpTo(StageFroms(MaxStages), MaxStages)
    /\ stage_pos = 0
    /\ stage_index = NoIndex
    /\ base_images = <<>>
    /\ base_images_digests = <<>>
    /\ index = 0
    /\ components = <<>>
    /\ already_used_base_images = {}
    /\ sbom = NoSbom
    /\ sbom_file = NoSbom
    /\ annotation_date = NoDate
    /\ arg_image = EmptyStr
    /\ ret_parsed_image = NoParse

NextResolve == ResolverStep

SpecResolve == InitResolve /\ [][NextResolve]_vars

SpecResolveFair == InitResolve /\ [][NextResolve]_vars /\ WF_vars(NextResolve)

(***************************************************************************)
(* SpecPipeline: get_base_images_from_dockerfile on any stage list, the     *)
(* digests file read, then get_base_images_sbom_components, as main calls   *)
(* them.                                                                    *)
(***************************************************************************)
InitPipeline ==
    /\ pc = "resolve"
    /\ stages \in SeqsUpTo(StageFroms(MaxStages), MaxStages)
    /\ stage_pos = 0
    /\ stage_index = NoIndex
    /\ base_images = <<>>
    /\ base_images_digests = <<>>
    /\ index = 0
    /\ components = <<>>
    /\ already_used_base_images = {}
    /\ sbom = NoSbom
    /\ sbom_file = NoSbom
    /\ annotation_date = NoDate
    /\ arg_image = EmptyStr
    /\ ret_parsed_image = NoParse

NextPipeline ==
    \/ ResolverStep
    \/ ReadDigests
    \/ ReadDigestsRaises
    \/ BuilderStep

SpecPipeline == InitPipeline /\ [][NextPipeline]_vars

(***************************************************************************)
(* Vocabulary of the properties, written from the inputs alone.             *)
(***************************************************************************)
Returned == pc = "returned"

\* the reference is exactly "scratch" or begins with "oci-archive"
PseudoRef(image) ==
    image = <<"scratch">> \/ (Len(image) > 0 /\ image[1] = "oci-archive")

\* the digest mapping has a non-empty entry for the reference
Mapped(image) ==
    image \in DOMAIN base_images_digests /\ base_images_digests[image] # <<>>

\* 0-based stage indices of the input
StageIndices == 0..(Len(base_images) - 1)

\* the stage at 0-based index i is neither a pseudo-stage nor without digest
Contributes(i) ==
    /\ i \in StageIndices
    /\ ~PseudoRef(base_images[i + 1])
    /\ Mapped(base_images[i + 1])

\* purl of the digest-pinned image of the contributing stage i
StagePurl(i) ==
    PurlToString(parse_image_reference_to_parts(base_images_digests[base_images[i + 1]]))

\* contributing stages the loop has already passed
Processed == {i \in StageIndices : i < index /\ Contributes(i)}

BuilderProperty(i) == [name |-> BuilderName, value |-> IntToStr(i)]
BaseProperty == [name |-> BaseName, value |-> "true"]

\* components carrying the property p
Carriers(p) ==
    {c \in DOMAIN components :
        \E k \in DOMAIN components[c].properties : components[c].properties[k] = p}

\* the property p occurs in the component with purl u
CarriedBy(u, p) == \E c \in Carriers(p) : components[c].purl = u

\* C1: no two returned components share a purl; a stage whose purl an
\* earlier stage produced adds exactly one property to that component and
\* no component: every component has one property per stage of its purl,
\* and there is one component per purl.
C1_UniquePurl ==
    /\ \A c, d \in DOMAIN components :
          components[c].purl = components[d].purl => c = d
    /\ \A c \in DOMAIN components :
          Len(components[c].properties) =
              Cardinality({i \in Processed : StagePurl(i) = components[c].purl})
    /\ Len(components) = Cardinality({StagePurl(i) : i \in Processed})

\* C1 witness: a returned list where two stages, with different references,
\* met in one component next to another component
C1_Witness ==
    /\ Returned
    /\ Len(components) = 2
    /\ \E c \in DOMAIN components : Len(components[c].properties) = 2
    /\ \A i, j \in 1..Len(base_images) : i # j => base_images[i] # base_images[j]

\* C2: the N of every is_builder_image:for_stage=N property is the 0-based
\* position, in base_images, of a stage whose digest-pinned image has the
\* purl of the component that carries it.
C2_StageNumberIsPosition ==
    \A c \in DOMAIN components :
        \A k \in DOMAIN components[c].properties :
            LET p == components[c].properties[k]
            IN  p.name = BuilderName =>
                    \E N \in StageIndices :
                        /\ IntToStr(N) = p.value
                        /\ Contributes(N)
                        /\ StagePurl(N) = components[c].purl

\* C2 witness: a builder stage numbered 1 behind a skipped stage 0
C2_Witness ==
    /\ Returned
    /\ Len(base_images) = 3
    /\ ~Contributes(0)
    /\ CarriedBy(StagePurl(1), BuilderProperty(1))

\* C3: a non-skipped stage at index i contributes is_base_image=true exactly
\* when i is the last index of base_images and is_builder_image:for_stage=i
\* otherwise; when the last entry is a pseudo-stage no component carries
\* is_base_image.
C3_PropertyOfStage ==
    /\ \A i \in Processed :
          IF i = Len(base_images) - 1
          THEN CarriedBy(StagePurl(i), BaseProperty)
               /\ ~CarriedBy(StagePurl(i), BuilderProperty(i))
          ELSE CarriedBy(StagePurl(i), BuilderProperty(i))
    /\ Carriers(BaseProperty) # {} => Contributes(Len(base_images) - 1)
    /\ (Len(base_images) > 0 /\ PseudoRef(base_images[Len(base_images)]))
          => Carriers(BaseProperty) = {}

\* C3 witness: two real stages before a final scratch, both tagged as builders
C3_Witness ==
    /\ Returned
    /\ Len(base_images) = 3
    /\ base_images[3] = <<"scratch">>
    /\ Contributes(0) /\ Contributes(1)
    /\ CarriedBy(StagePurl(0), BuilderProperty(0))
    /\ CarriedBy(StagePurl(1), BuilderProperty(1))
    /\ Carriers(BaseProperty) = {}

\* the last stage that contributes, when there is one
HasContributor == \E i \in StageIndices : Contributes(i)
LastContributor == CHOOSE i \in StageIndices :
                       Contributes(i) /\ \A j \in StageIndices : Contributes(j) => j <= i

\* C4 as stated: the final non-skipped, non-pseudo stage is always annotated
\* as the base image and the earlier non-skipped stages as builder images.
C4_Original ==
    (Returned /\ HasContributor) =>
        /\ CarriedBy(StagePurl(LastContributor), BaseProperty)
        /\ \A i \in StageIndices :
              (Contributes(i) /\ i < LastContributor)
                  => CarriedBy(StagePurl(i), BuilderProperty(i))

\* C4 amended: the final non-skipped, non-pseudo stage is annotated as the
\* base image exactly when it is the last stage of the input, and as a
\* builder image for its index when a stage follows it; the earlier
\* non-skipped stages are annotated as builder images for their index.
C4_Amended ==
    (Returned /\ HasContributor) =>
        /\ CarriedBy(StagePurl(LastContributor), BaseProperty)
              <=> LastContributor = Len(base_images) - 1
        /\ LastContributor < Len(base_images) - 1
              => CarriedBy(StagePurl(LastContributor), BuilderProperty(LastContributor))
        /\ \A i \in StageIndices :
              (Contributes(i) /\ i < LastContributor)
                  => CarriedBy(StagePurl(i), BuilderProperty(i))

\* C4 witness: the last contributing stage is followed by a pseudo-stage and
\* is tagged as a builder
C4_Witness ==
    /\ Returned
    /\ HasContributor
    /\ LastContributor = Len(base_images) - 2
    /\ PseudoRef(base_images[Len(base_images)])
    /\ CarriedBy(StagePurl(LastContributor), BuilderProperty(LastContributor))

\* the last stage that is not a pseudo-stage, when there is one
HasRealStage == \E i \in StageIndices : ~PseudoRef(base_images[i + 1])
LastRealStage == CHOOSE i \in StageIndices :
                     /\ ~PseudoRef(base_images[i + 1])
                     /\ \A j \in StageIndices : ~PseudoRef(base_images[j + 1]) => j <= i

\* C5 as stated (for an input with a stage that is not a pseudo-stage):
\* exactly one component, that of the last non-skipped stage, carries
\* is_base_image=true, unless that stage has no digest or the last stage is
\* scratch, and then none does.
C5_Original ==
    (Returned /\ HasRealStage) =>
        IF ~Mapped(base_images[LastRealStage + 1])
              \/ base_images[Len(base_images)] = <<"scratch">>
        THEN Carriers(BaseProperty) = {}
        ELSE /\ Cardinality(Carriers(BaseProperty)) = 1
             /\ CarriedBy(StagePurl(LastRealStage), BaseProperty)

\* C5 amended: as stated, with "or the last stage is scratch" widened to
\* "or the last stage is scratch or an oci-archive reference, or the input
\* has no stage that is not one of these".
C5_Amended ==
    Returned =>
        IF \/ ~HasRealStage
           \/ ~Mapped(base_images[LastRealStage + 1])
           \/ PseudoRef(base_images[Len(base_images)])
        THEN Carriers(BaseProperty) = {}
        ELSE /\ Cardinality(Carriers(BaseProperty)) = 1
             /\ CarriedBy(StagePurl(LastRealStage), BaseProperty)

\* C5 witness: a digest-pinned stage before a final oci-archive stage, and no
\* base image property
C5_Witness ==
    /\ Returned
    /\ Len(base_images) >= 2
    /\ base_images[Len(base_images)][1] = "oci-archive"
    /\ Contributes(Len(base_images) - 2)
    /\ Carriers(BaseProperty) = {}
    /\ components # <<>>

\* the property the claim expects of stage j
ExpectedProperty(j) ==
    IF j = Len(base_images) - 1 THEN BaseProperty ELSE BuilderProperty(j)

\* C6: the same resolved image at stages i < j gives one component whose
\* property list holds the entry of i before the entry of j; the entry of
\* a final j is is_base_image=true.
C6_ArrivalOrder ==
    Returned =>
        \A i, j \in StageIndices :
            (i < j /\ Contributes(i) /\ Contributes(j) /\ StagePurl(i) = StagePurl(j)) =>
                /\ Cardinality({c \in DOMAIN components :
                                    components[c].purl = StagePurl(i)}) = 1
                /\ \E c \in DOMAIN components :
                      /\ components[c].purl = StagePurl(i)
                      /\ \E a, b \in DOMAIN components[c].properties :
                            /\ a < b
                            /\ components[c].properties[a] = BuilderProperty(i)
                            /\ components[c].properties[b] = ExpectedProperty(j)

\* C6 witness: one component carrying a builder property and then the base
\* image property
C6_Witness ==
    /\ Returned
    /\ \E c \in DOMAIN components :
          /\ Len(components[c].properties) = 2
          /\ components[c].properties[1] = BuilderProperty(0)
          /\ components[c].properties[2] = BaseProperty

\* C7: a stage that is scratch, begins with oci-archive or has no digest
\* leaves the component list as it was, whether or not the digest mapping
\* has an entry for a scratch or oci-archive stage.
C7_SkippedContributesNothing ==
    [][(pc = "components" /\ index < Len(base_images) /\ index' = index + 1
            /\ (PseudoRef(base_images[index + 1]) \/ ~Mapped(base_images[index + 1])))
          => components' = components]_vars

\* C7 witness: a component exists and the loop has just passed a scratch
\* stage for which the digest mapping has an entry
C7_Witness ==
    /\ pc = "components"
    /\ index >= 2
    /\ base_images[index] = <<"scratch">>
    /\ Mapped(<<"scratch">>)
    /\ Len(components) = 1

\* C8: when the computed component list is empty, main goes straight to its
\* end: the document is neither loaded nor changed nor rewritten, and no
\* error is raised; the SBOM file changes only in runs with components.
C8_EmptyLeavesSbom ==
    [][/\ (pc = "returned" /\ components = <<>>)
            => (pc' = "done" /\ sbom' = sbom /\ sbom_file' = sbom_file)
       /\ (sbom' # sbom \/ sbom_file' # sbom_file) => components # <<>>]_vars

\* C8 witness: a run over stages that produced no component has ended, with
\* no document loaded
C8_Witness ==
    /\ pc = "done"
    /\ components = <<>>
    /\ Len(base_images) = 2
    /\ base_images_digests # <<>>
    /\ sbom = NoSbom
    /\ sbom_file = SpdxOk

\* C9: a call of update_cyclonedx_sbom leaves a formulation list that is the
\* former list (empty if absent) with one entry appended, whose components
\* are the given list; no other key of the document changes.
C9_CyclonedxAppendsOne ==
    [][EmitCyclonedx =>
          /\ "formulation" \in DOMAIN sbom'
          /\ Len(sbom'.formulation) =
                 (IF "formulation" \in DOMAIN sbom THEN Len(sbom.formulation) ELSE 0) + 1
          /\ sbom'.formulation[Len(sbom'.formulation)] = [components |-> components']
          /\ "formulation" \in DOMAIN sbom =>
                 \A k \in 1..Len(sbom.formulation) :
                     sbom'.formulation[k] = sbom.formulation[k]
          /\ DOMAIN sbom' = DOMAIN sbom \cup {"formulation"}
          /\ \A key \in DOMAIN sbom \ {"formulation"} : sbom'[key] = sbom[key]]_vars

\* C9 witness: a document that had one formulation entry has a second one
\* holding two components
C9_Witness ==
    /\ pc = "emit"
    /\ "formulation" \in DOMAIN sbom
    /\ Len(sbom.formulation) = 2
    /\ sbom.formulation[1] = [components |-> <<ComponentB>>]
    /\ sbom.formulation[2] = [components |-> <<ComponentA, ComponentB>>]
    /\ sbom.metadata = "m"

\* the target of the document's DESCRIBES relationship
DescribedRoot(doc) ==
    LET r == CHOOSE k \in DOMAIN doc.relationships :
                 /\ doc.relationships[k].spdxElementId = doc.SPDXID
                 /\ doc.relationships[k].relationshipType = "DESCRIBES"
    IN  doc.relationships[r].relatedSpdxElement

OldPackages == IF "packages" \in DOMAIN sbom THEN sbom.packages ELSE <<>>

\* C10: a successful update_spdx_sbom with n packages leaves the former
\* packages and relationships as prefixes, followed by the n packages in
\* component order and by n relationships, the k-th being
\* {SPDXID of the k-th new package} BUILD_TOOL_OF {root}; no other key of
\* the document changes.
C10_SpdxAppends ==
    [][EmitSpdx =>
          LET n == Len(components')
              p == Len(OldPackages)
              r == Len(sbom.relationships)
          IN  /\ Len(sbom'.packages) = p + n
              /\ Len(sbom'.relationships) = r + n
              /\ SubSeq(sbom'.packages, 1, p) = OldPackages
              /\ SubSeq(sbom'.relationships, 1, r) = sbom.relationships
              /\ \A k \in 1..n :
                    /\ sbom'.packages[p + k].name = components'[k].name
                    /\ sbom'.packages[p + k].externalRefs[1].referenceLocator
                           = components'[k].purl
                    /\ sbom'.relationships[r + k] =
                           [spdxElementId |-> sbom'.packages[p + k].SPDXID,
                            relationshipType |-> "BUILD_TOOL_OF",
                            relatedSpdxElement |-> DescribedRoot(sbom)]
              /\ DOMAIN sbom' = DOMAIN sbom \cup {"packages"}
              /\ \A key \in DOMAIN sbom \ {"packages", "relationships"} :
                    sbom'[key] = sbom[key]]_vars

\* C10 witness: two packages and two relationships were added behind the
\* root package and the two relationships of the document
C10_Witness ==
    /\ pc = "emit"
    /\ Len(components) = 2
    /\ "packages" \in DOMAIN sbom
    /\ Len(sbom.packages) = 3
    /\ sbom.packages[1] = RootPackage
    /\ Len(sbom.relationships) = 4
    /\ sbom.relationships[2] = Contains
    /\ sbom.relationships[4].relationshipType = "BUILD_TOOL_OF"
    /\ sbom.relationships[4].relatedSpdxElement = RootId

\* positions of the relationships {document} DESCRIBES {x} of a document
DescribesAt(doc) ==
    {k \in (IF "relationships" \in DOMAIN doc THEN DOMAIN doc.relationships ELSE {}) :
        /\ doc.relationships[k].spdxElementId = doc.SPDXID
        /\ doc.relationships[k].relationshipType = "DESCRIBES"}

HasSpdxShape(doc) == "SPDXID" \in DOMAIN doc /\ "relationships" \in DOMAIN doc

\* C11: find_spdx_root_package returns the related element when exactly one
\* relationship has the document as source and type DESCRIBES, and fails in
\* every other case, two relationships naming one target included; the
\* error reports the count found and the found targets, in document order.
C11_ExactlyOneRoot ==
    /\ ("SPDXID" \in DOMAIN sbom /\ "relationships" \notin DOMAIN sbom)
          => (~FindRootOk(sbom) /\ FindRootError(sbom) = [found |-> 0, roots |-> <<>>])
    /\ HasSpdxShape(sbom) =>
          /\ FindRootOk(sbom) <=> Cardinality(DescribesAt(sbom)) = 1
          /\ FindRootOk(sbom) =>
                \E k \in DescribesAt(sbom) :
                    find_spdx_root_package(sbom) = sbom.relationships[k].relatedSpdxElement
          /\ ~FindRootOk(sbom) =>
                /\ FindRootError(sbom).found = Cardinality(DescribesAt(sbom))
                /\ Len(FindRootError(sbom).roots) = Cardinality(DescribesAt(sbom))
                /\ \A k \in DescribesAt(sbom) :
                      FindRootError(sbom).roots[Cardinality({j \in DescribesAt(sbom) : j <= k})]
                          = sbom.relationships[k].relatedSpdxElement
    /\ (pc = "error" /\ HasSpdxShape(sbom)) => Cardinality(DescribesAt(sbom)) # 1

\* C11 witness: the call failed on a document with two DESCRIBES
\* relationships naming the same target
C11_Witness ==
    /\ pc = "error"
    /\ HasSpdxShape(sbom)
    /\ Cardinality(DescribesAt(sbom)) = 2
    /\ \A j, k \in DescribesAt(sbom) :
          sbom.relationships[j].relatedSpdxElement = sbom.relationships[k].relatedSpdxElement
    /\ FindRootError(sbom).found = 2

\* the document indicates CycloneDX / SPDX
IndicatesCyclonedx(doc) == "bomFormat" \in DOMAIN doc /\ doc.bomFormat = "CycloneDX"
IndicatesSpdx(doc) == "spdxVersion" \in DOMAIN doc /\ doc.spdxVersion # ""

\* C12: a run that fails on the SBOM (format undetectable, or SPDX root
\* count different from 1) fails with the document in memory exactly as it
\* was loaded and the SBOM file as it was; nothing happens after the error.
C12_NoPartialOutput ==
    [][/\ (pc = "loaded" /\ pc' = "error")
            => /\ sbom = sbom_file
               /\ sbom' = sbom
               /\ sbom_file' = sbom_file
               /\ \/ ~IndicatesCyclonedx(sbom) /\ ~IndicatesSpdx(sbom)
                  \/ Cardinality(DescribesAt(sbom)) # 1
       /\ pc # "error"]_vars

\* C12 witness: the run failed on an SPDX document with two roots, after
\* components were computed
C12_Witness ==
    /\ pc = "error"
    /\ components # <<>>
    /\ sbom = SpdxTwoRoots
    /\ sbom_file = SpdxTwoRoots
    /\ annotation_date # NoDate

\* C13: detect_sbom_type gives cyclonedx when bomFormat is "CycloneDX", spdx
\* when it is not and spdxVersion is present and not empty, and raises
\* otherwise; so main, on a loaded document, changes only the formulation
\* section in the first case (also when spdxVersion is present), takes the
\* SPDX path in the second, and fails in the third.
C13_FormatDetection ==
    [][pc = "loaded" =>
          IF IndicatesCyclonedx(sbom)
          THEN /\ pc' = "updated"
               /\ annotation_date' = annotation_date
               /\ DOMAIN sbom' = DOMAIN sbom \cup {"formulation"}
               /\ \A key \in DOMAIN sbom \ {"formulation"} : sbom'[key] = sbom[key]
               /\ Len(sbom'.formulation) =
                      (IF "formulation" \in DOMAIN sbom THEN Len(sbom.formulation) ELSE 0) + 1
          ELSE IF IndicatesSpdx(sbom)
          THEN /\ annotation_date' # NoDate
               /\ "formulation" \notin DOMAIN sbom'
               /\ pc' = "updated" => Len(sbom'.packages) > Len(sbom.packages)
          ELSE pc' = "error" /\ sbom' = sbom]_vars

\* C13 witness: a document carrying both fields was written back with a
\* formulation section and its packages and relationships as they were
C13_Witness ==
    /\ pc = "done"
    /\ IndicatesCyclonedx(sbom_file) /\ IndicatesSpdx(sbom_file)
    /\ "formulation" \in DOMAIN sbom_file
    /\ sbom_file.packages = <<RootPackage>>
    /\ sbom_file.relationships = <<Describes(RootId)>>

IndicatesNeither(doc) == ~IndicatesCyclonedx(doc) /\ ~IndicatesSpdx(doc)

\* every stage's "From" is exactly one of {Image}, {Scratch}, {Stage}
WellFormedStages ==
    \A k \in DOMAIN stages :
        DOMAIN stages[k] \in {{"Image"}, {"Scratch"}, {"Stage"}}

\* C14 as stated (for a Dockerfile with at least one stage): no run of main on
\* a document that indicates neither format ends without an error.
C14_Original ==
    (IndicatesNeither(sbom_file) /\ Len(stages) >= 1 /\ WellFormedStages) => pc # "done"

\* C14 amended: on a document that indicates neither format, a run of main
\* that computed a non-empty component list fails when it detects the format
\* and never updates or rewrites the document; a run ends without error only
\* with an empty component list, the document not having been read.
C14_Amended ==
    /\ [](IndicatesNeither(sbom_file) =>
            /\ pc # "updated"
            /\ pc = "done" => (components = <<>> /\ sbom = NoSbom))
    /\ [][(pc = "loaded" /\ IndicatesNeither(sbom_file))
             => (pc' = "error" /\ sbom_file' = sbom_file)]_vars

\* C14 witness: a run with components failed on a document of neither format
C14_Witness ==
    /\ pc = "error"
    /\ components # <<>>
    /\ sbom = sbom_file
    /\ IndicatesNeither(sbom_file)
    /\ "bomFormat" \in DOMAIN sbom_file

\* 0-based index of the stage at which the alias chain of stage k ends,
\* following indices inside 0..Len(stages)-1 for at most fuel references;
\* -1 when the chain leaves the list or does not end
RECURSIVE ChainEnd(_, _)
ChainEnd(k, fuel) ==
    IF "Stage" \notin DOMAIN stages[k + 1] THEN k
    ELSE IF fuel = 0 \/ stages[k + 1].Stage.Index \notin 0..(Len(stages) - 1) THEN -1
    ELSE ChainEnd(stages[k + 1].Stage.Index, fuel - 1)

EndOf(k) == ChainEnd(k, Len(stages))

\* the chain of stage k ends at a stage with a literal image / at scratch
EndsAtImage(k) == EndOf(k) # -1 /\ "Image" \in DOMAIN stages[EndOf(k) + 1]
EndsAtScratch(k) == EndOf(k) # -1 /\ "Scratch" \in DOMAIN stages[EndOf(k) + 1]

\* what stage k resolves to
Resolution(k) ==
    IF EndsAtImage(k) THEN stages[EndOf(k) + 1].Image ELSE <<"scratch">>

ResolverReturned == pc = "digests"

\* C15: for a list of stages of the three shapes, the resolver has emitted
\* one element per stage it has passed, the k-th being the resolution of the
\* k-th stage, so the list it returns is as long as the stage list.
C15_OnePerStage ==
    WellFormedStages =>
        /\ pc \in {"resolve", "chain"} => Len(base_images) = stage_pos
        /\ ResolverReturned => Len(base_images) = Len(stages)
        /\ \A k \in 1..Len(base_images) :
              EndOf(k - 1) # -1 => base_images[k] = Resolution(k - 1)

\* C15 witness: three stages, a literal image, scratch and a reference to the
\* first, gave three elements
C15_Witness ==
    /\ ResolverReturned
    /\ Len(stages) = 3
    /\ "Scratch" \in DOMAIN stages[2]
    /\ "Stage" \in DOMAIN stages[3]
    /\ base_images = <<stages[1].Image, <<"scratch">>, stages[1].Image>>

\* C16: a literal stage emits its image and a scratch stage "scratch"; the
\* turns of the while loop over alias stages emit nothing, and the turn
\* that reaches the literal image emits that image, once, at the position
\* of the referring stage.
C16_ChainEmitsOnce ==
    [][WellFormedStages =>
          /\ (pc = "resolve" /\ stage_pos < Len(stages)
                 /\ "Image" \in DOMAIN stages[stage_pos + 1])
                => base_images' = Append(base_images, stages[stage_pos + 1].Image)
          /\ (pc = "resolve" /\ stage_pos < Len(stages)
                 /\ "Scratch" \in DOMAIN stages[stage_pos + 1])
                => base_images' = Append(base_images, <<"scratch">>)
          /\ (pc' = "chain" \/ pc' = "error") => base_images' = base_images
          /\ (pc = "chain" /\ pc' = "resolve")
                => /\ Len(base_images) = stage_pos
                   /\ stage_pos' = stage_pos + 1
                   /\ Len(base_images') = Len(base_images) + 1
                   /\ SubSeq(base_images', 1, Len(base_images)) = base_images
                   /\ EndOf(stage_pos) # -1 =>
                         /\ EndsAtImage(stage_pos)
                         /\ base_images'[stage_pos + 1] = stages[EndOf(stage_pos) + 1].Image]_vars

\* C16 witness: a stage that refers to a stage that refers to a literal
\* image was resolved to that image
C16_Witness ==
    /\ ResolverReturned
    /\ Len(stages) = 3
    /\ "Image" \in DOMAIN stages[1]
    /\ "Stage" \in DOMAIN stages[2] /\ stages[2].Stage.Index = 0
    /\ "Stage" \in DOMAIN stages[3] /\ stages[3].Stage.Index = 1
    /\ base_images = <<stages[1].Image, stages[1].Image, stages[1].Image>>

\* C17: a stage whose alias chain ends at a scratch stage resolves to
\* "scratch" at its own position: the resolver does not fail on it, and once
\* it has passed the stage the element at that position is "scratch".
C17_AliasToScratch ==
    WellFormedStages =>
        \A k \in 0..(Len(stages) - 1) :
            ("Stage" \in DOMAIN stages[k + 1] /\ EndsAtScratch(k)) =>
                /\ ~(pc = "error" /\ stage_pos = k)
                /\ (stage_pos > k /\ Len(base_images) > k)
                      => base_images[k + 1] = <<"scratch">>

\* every stage reference carries a non-negative index
NonNegativeRefs ==
    \A k \in 1..Len(stages) :
        "Stage" \in DOMAIN stages[k] => stages[k].Stage.Index >= 0

\* some stage is an alias whose chain does not end at a literal image
SomeBadChain ==
    \E k \in 0..(Len(stages) - 1) :
        "Stage" \in DOMAIN stages[k + 1] /\ ~EndsAtImage(k)

\* C18: when the alias chain of some stage ends at a scratch stage, leaves
\* the stage list or forms a cycle, the call returns no list and ends with
\* an error.
C18_BadChainFails ==
    /\ []((WellFormedStages /\ NonNegativeRefs /\ SomeBadChain) => ~ResolverReturned)
    /\ (WellFormedStages /\ NonNegativeRefs /\ SomeBadChain) ~> (pc = "error")

\* digest-pinned reference of stage i
StageRef(i) == base_images_digests[base_images[i + 1]]

\* every stage is a literal image with a digest
AllWithDigest == Len(base_images) >= 1 /\ \A i \in StageIndices : Contributes(i)

\* the distinct digest-pinned references used
UsedRefs == {StageRef(i) : i \in StageIndices}

\* no digest-pinned reference is used by more than one stage
NoRefReused == \A i, j \in StageIndices : i # j => StageRef(i) # StageRef(j)

\* no two stages use references with the same repository and digest
NoPurlReused == \A i, j \in StageIndices : i # j => StagePurl(i) # StagePurl(j)

\* C19 as stated: at most as many components as distinct references, and as
\* many when no reference is used by two stages.
C19_Original ==
    (Returned /\ AllWithDigest) =>
        /\ Len(components) <= Cardinality(UsedRefs)
        /\ NoRefReused => Len(components) = Cardinality(UsedRefs)

\* C19 amended: at most as many components as distinct references; exactly
\* as many as distinct purls (repository and digest, the tag left out), so
\* as many as references when no two stages share repository and digest.
C19_Amended ==
    (Returned /\ AllWithDigest) =>
        /\ Len(components) <= Cardinality(UsedRefs)
        /\ Len(components) = Cardinality({StagePurl(i) : i \in StageIndices})
        /\ NoPurlReused => Len(components) = Cardinality(UsedRefs)

\* C19 witness: two stages with two references that differ in the tag only
\* gave one component
C19_Witness ==
    /\ Returned
    /\ AllWithDigest
    /\ Len(base_images) = 2
    /\ NoRefReused
    /\ Cardinality(UsedRefs) = 2
    /\ Len(components) = 1

\* the document ends with the packages of comps translated at time now and
\* with their BUILD_TOOL_OF relationships
AlreadyApplied(doc, comps, now) ==
    LET n == Len(comps)
        p == Len(PackagesOf(doc)) - n
        r == Len(doc.relationships) - n
    IN  /\ n > 0 /\ p >= 0 /\ r >= 0
        /\ SubSeq(doc.packages, p + 1, p + n) = SpdxPackages(comps, now)
        /\ \A k \in 1..n :
              /\ doc.relationships[r + k].spdxElementId = doc.packages[p + k].SPDXID
              /\ doc.relationships[r + k].relationshipType = "BUILD_TOOL_OF"

\* C20: applying the SPDX emitter with a component list and date to a
\* document that already ends with the result of that application leaves the
\* document as it is.
C20_Idempotent ==
    [][(EmitSpdx /\ AlreadyApplied(sbom, components', annotation_date'[1]))
          => sbom' = sbom]_vars

\* last "/"-separated segment of host path, known from the parts
LastSegment(host, path) == IF path = <<>> THEN host ELSE <<path[Len(path)]>>

\* C21 as stated: for a reference host path [: tag] @ digest, with or
\* without tag and port, the call returns repository = host path, the
\* digest and name = the last segment of the repository.
C21_Original ==
    \A h \in Hosts, p \in Paths, t \in Tags, d \in Digests :
        (arg_image = MkRef(h, p, t, d) /\ pc # "parse") =>
            /\ pc = "parsed"
            /\ ret_parsed_image = <<[repository |-> h \o p, digest |-> d,
                                 name |-> LastSegment(h, p)]>>

\* C21 amended: with a tag the call returns repository = host path, the
\* digest and the last segment; without a tag it raises when the repository
\* has no colon, and otherwise returns what precedes the last colon (the
\* port's) as repository.
C21_Amended ==
    \A h \in Hosts, p \in Paths, t \in Tags, d \in Digests :
        (arg_image = MkRef(h, p, t, d) /\ pc # "parse") =>
            /\ t # NoTag =>
                  /\ pc = "parsed"
                  /\ ret_parsed_image = <<[repository |-> h \o p, digest |-> d,
                                       name |-> LastSegment(h, p)]>>
            /\ (t = NoTag /\ Len(h) = 1) => pc = "error" /\ ret_parsed_image = NoParse
            /\ (t = NoTag /\ Len(h) > 1) =>
                  /\ pc = "parsed"
                  /\ ret_parsed_image[1].repository = <<h[1]>>
                  /\ ret_parsed_image[1].digest = d

\* C21 witness: a reference with a port in the registry host, two path
\* segments and a tag was parsed
C21_Witness ==
    /\ pc = "parsed"
    /\ arg_image = MkRef(<<"reg", ":", "5000">>, <<"/", "ns", "/", "a">>, <<":", "t1">>,
                     <<"sha256", ":", "d1">>)
    /\ ret_parsed_image[1].repository = <<"reg", ":", "5000", "/", "ns", "/", "a">>
    /\ ret_parsed_image[1].name = <<"a">>

\* the compact JSON text of a property: name first, then value
Encoding(p) == "{\"name\":\"" \o p.name \o "\",\"value\":\"" \o p.value \o "\"}"

\* C22: each package a successful SPDX update adds has as many annotations
\* as its component has properties, the j-th comment being the encoding of
\* the j-th property; its name is the component's name and its one external
\* reference is the component's purl.
C22_AnnotationPerProperty ==
    [][EmitSpdx =>
          LET p == Len(OldPackages)
          IN  \A k \in 1..Len(components') :
                  LET pkg == sbom'.packages[p + k]
                      c == components'[k]
                  IN  /\ Len(pkg.annotations) = Len(c.properties)
                      /\ \A j \in 1..Len(c.properties) :
                            pkg.annotations[j].comment = Encoding(c.properties[j])
                      /\ pkg.name = c.name
                      /\ Len(pkg.externalRefs) = 1
                      /\ pkg.externalRefs[1].referenceType = "purl"
                      /\ pkg.externalRefs[1].referenceLocator = c.purl]_vars

\* C22 witness: a component with a builder and a base property became a
\* package with the two comments in that order
C22_Witness ==
    /\ pc = "emit"
    /\ components = <<ComponentAReused>>
    /\ "packages" \in DOMAIN sbom
    /\ LET pkg == sbom.packages[Len(sbom.packages)]
       IN  /\ Len(pkg.annotations) = 2
           /\ pkg.annotations[1].comment =
                  "{\"name\":\"konflux:container:is_builder_image:for_stage\",\"value\":\"0\"}"
           /\ pkg.annotations[2].comment =
                  "{\"name\":\"konflux:container:is_base_image\",\"value\":\"true\"}"

\* the packages the run has added to the loaded document, before it is written
AddedPackages ==
    IF "packages" \in DOMAIN sbom
    THEN SubSeq(sbom.packages, Len(PackagesOf(sbom_file)) + 1, Len(sbom.packages))
    ELSE <<>>

\* the annotationDate values of the added packages
AddedDates ==
    UNION {{AddedPackages[k].annotations[j].annotationDate :
               j \in DOMAIN AddedPackages[k].annotations} : k \in DOMAIN AddedPackages}

\* C23: in a run of main on an SPDX document the time is read at most once
\* (the value read never changes afterwards), and all annotations of all
\* packages the run adds carry one annotationDate.
C23_OneTimestamp ==
    /\ []((IndicatesSpdx(sbom_file) /\ ~IndicatesCyclonedx(sbom_file)
              /\ pc = "updated")
            => /\ annotation_date # NoDate
               /\ Len(AddedPackages) = Len(components)
               /\ Cardinality(AddedDates) = 1)
    /\ [][annotation_date' # annotation_date => annotation_date = NoDate]_vars

\* C23 witness: a run added two packages to an SPDX document
C23_Witness ==
    /\ pc = "updated"
    /\ IndicatesSpdx(sbom_file)
    /\ Len(AddedPackages) = 2
    /\ AddedPackages[1].annotations[1].annotationDate
           = AddedPackages[2].annotations[1].annotationDate

\* stages that contributed to the component at position c
ContributorsOf(c) ==
    {i \in StageIndices : Contributes(i) /\ StagePurl(i) = components[c].purl}

\* lowest stage index that contributed to the component at position c
FirstStage(c) ==
    CHOOSE i \in ContributorsOf(c) : \A j \in ContributorsOf(c) : i <= j

\* C24: in the returned list, component c precedes component d exactly when
\* the lowest contributing stage of c is lower than that of d.
C24_FirstSeenOrder ==
    Returned =>
        /\ \A c \in DOMAIN components : ContributorsOf(c) # {}
        /\ \A c, d \in DOMAIN components : c < d <=> FirstStage(c) < FirstStage(d)

\* C24 witness: stages A, B, A gave the components of A and B in that order
C24_Witness ==
    /\ Returned
    /\ Len(base_images) = 3
    /\ Len(components) = 2
    /\ ContributorsOf(1) = {0, 2}
    /\ ContributorsOf(2) = {1}

\* C25: the resolver terminates on every stage list: it returns a list or
\* raises an error.
C25_Terminates == <>(ResolverReturned \/ pc = "error")

\* some component has a property named is_base_image
SomeBaseProperty ==
    \E c \in DOMAIN components :
        \E k \in DOMAIN components[c].properties :
            components[c].properties[k].name = BaseName

\* the last entry is a literal image without digest
LastHasNoDigest ==
    /\ Len(base_images) >= 1
    /\ ~PseudoRef(base_images[Len(base_images)])
    /\ ~Mapped(base_images[Len(base_images)])

\* C26: when the last entry is a literal image with no digest, no component
\* has an is_base_image property, and every earlier contributing stage has
\* is_builder_image:for_stage with its own index on its component.
C26_NoBaseTagWithoutDigest ==
    (Returned /\ LastHasNoDigest) =>
        /\ ~SomeBaseProperty
        /\ \A i \in StageIndices :
              Contributes(i) => CarriedBy(StagePurl(i), BuilderProperty(i))

\* C26 witness: two digest-pinned stages before a final stage without
\* digest gave builder properties 0 and 1 only
C26_Witness ==
    /\ Returned
    /\ LastHasNoDigest
    /\ Len(base_images) = 3
    /\ Contributes(0) /\ Contributes(1)
    /\ ~SomeBaseProperty
    /\ CarriedBy(StagePurl(1), BuilderProperty(1))

RECURSIVE PropertyCount(_)
\* number of properties over the first n components
PropertyCount(n) ==
    IF n = 0 THEN 0 ELSE PropertyCount(n - 1) + Len(components[n].properties)

\* C27: every returned component is of type "container" with at least one
\* property, and there are as many properties in all as stages that are no
\* pseudo-stage and have a non-empty digest.
C27_OnePropertyPerStage ==
    Returned =>
        /\ \A c \in DOMAIN components :
              components[c].type = "container" /\ Len(components[c].properties) >= 1
        /\ PropertyCount(Len(components))
               = Cardinality({i \in StageIndices : Contributes(i)})

\* C27 witness: three contributing stages over two images gave three
\* properties in two components
C27_Witness ==
    /\ Returned
    /\ Cardinality({i \in StageIndices : Contributes(i)}) = 3
    /\ Len(components) = 2
    /\ PropertyCount(2) = 3

\* the property is is_builder_image:for_stage of stage i
IsBuilderOf(p, i) == p.name = BuilderName /\ p.value = IntToStr(i)

\* C28: at most one is_base_image property over all components; it is the
\* last property of its component, and the for_stage values of a component
\* are strictly increasing along its property list.
C28_BaseLastStagesIncreasing ==
    Returned =>
        /\ Cardinality({<<c, k>> \in (DOMAIN components) \X (1..Len(base_images)) :
               /\ k \in DOMAIN components[c].properties
               /\ components[c].properties[k].name = BaseName}) <= 1
        /\ \A c \in DOMAIN components :
              LET props == components[c].properties
              IN  /\ \A k \in DOMAIN props :
                        props[k].name = BaseName => k = Len(props)
                  /\ \A k, l \in DOMAIN props :
                        (k < l /\ props[k].name = BuilderName /\ props[l].name = BuilderName)
                            => \E i, j \in StageIndices :
                                  i < j /\ IsBuilderOf(props[k], i) /\ IsBuilderOf(props[l], j)

\* C28 witness: one image at three stages gave for_stage 0, for_stage 1 and
\* is_base_image, in that order
C28_Witness ==
    /\ Returned
    /\ Len(components) = 1
    /\ Len(components[1].properties) = 3
    /\ IsBuilderOf(components[1].properties[1], 0)
    /\ IsBuilderOf(components[1].properties[2], 1)
    /\ components[1].properties[3].name = BaseName

\* the one DESCRIBES target of a document with exactly one
OnlyRoot(doc) ==
    doc.relationships[CHOOSE k \in DescribesAt(doc) : TRUE].relatedSpdxElement

\* C29: a document that starts with exactly one DESCRIBES relationship of
\* the document keeps exactly one, with the same root, through any number
\* of updates, and no update fails on the root count.
C29_RootKept ==
    (HasSpdxShape(sbom_file) /\ Cardinality(DescribesAt(sbom_file)) = 1) =>
        /\ pc # "error"
        /\ HasSpdxShape(sbom)
        /\ Cardinality(DescribesAt(sbom)) = 1
        /\ OnlyRoot(sbom) = OnlyRoot(sbom_file)

\* C29 witness: after two updates that added packages the document has its
\* one root and two BUILD_TOOL_OF relationships to it
C29_Witness ==
    /\ pc = "emit"
    /\ HasSpdxShape(sbom_file) /\ Cardinality(DescribesAt(sbom_file)) = 1
    /\ Len(PackagesOf(sbom)) = Len(PackagesOf(sbom_file)) + 2
    /\ Len(components) = 1
    /\ Cardinality(DescribesAt(sbom)) = 1
    /\ Cardinality({k \in DOMAIN sbom.relationships :
           /\ sbom.relationships[k].relationshipType = "BUILD_TOOL_OF"
           /\ sbom.relationships[k].relatedSpdxElement = OnlyRoot(sbom_file)}) = 2

\* stage k derives from an earlier stage and its chain ends at a literal image
AliasOfEarlier(k) ==
    /\ "Stage" \in DOMAIN stages[k + 1]
    /\ stages[k + 1].Stage.Index \in 0..(k - 1)
    /\ EndsAtImage(k)

\* the property of the referring stage k
ReferringProperty(k) ==
    IF k = Len(stages) - 1 THEN BaseProperty ELSE BuilderProperty(k)

\* C30: when the component builder passes a stage that derives from an
\* earlier stage whose literal image has a digest, the number of components
\* stays, and the one component of that image gets one more property, with
\* the referring stage's own index, or is_base_image when it is the last
\* stage; the other components stay as they are.
C30_AliasIsReuse ==
    [][(/\ WellFormedStages
        /\ pc = "components"
        /\ index' = index + 1
        /\ AliasOfEarlier(index)
        /\ ~PseudoRef(Resolution(index))
        /\ Mapped(Resolution(index)))
          => /\ Len(components') = Len(components)
             /\ \E c \in DOMAIN components :
                   /\ components[c].purl =
                          PurlToString(parse_image_reference_to_parts(
                              base_images_digests[Resolution(index)]))
                   /\ components'[c] =
                          [components[c] EXCEPT
                              !.properties = Append(@, ReferringProperty(index))]
                   /\ \A d \in DOMAIN components : d # c => components'[d] = components[d]]_vars

\* C30 witness: an image, a stage derived from it and a last stage derived
\* from that one gave one component with for_stage 0, for_stage 1 and
\* is_base_image
C30_Witness ==
    /\ Returned
    /\ Len(stages) = 3
    /\ "Image" \in DOMAIN stages[1]
    /\ AliasOfEarlier(1)
    /\ AliasOfEarlier(2)
    /\ Len(components) = 1
    /\ components[1].properties =
           <<BuilderProperty(0), BuilderProperty(1), BaseProperty>>

====
